---- MODULE Spec2Model ----
(***************************************************************************)
(* A model of bazelment/autodeps: the index builder (src/indexer.py) and   *)
(* the dependency resolver (src/autodeps.py).                              *)
(*                                                                         *)
(* Strings that the code takes apart (labels, paths, archive entry names)  *)
(* are sequences of tokens: the separators "/", ":", "@" are tokens of     *)
(* their own, and so are the suffixes the code tests for (".jar",          *)
(* "-src", "_deploy", ".class").  startswith / endswith / removeprefix /   *)
(* replace / os.path.join are then the sequence operations below.          *)
(* Rule names are kept as whole strings: the code only compares them.      *)
(* The exports and visibility attributes are copied verbatim by the code   *)
(* and read by nothing; the descriptors of the model leave them out.       *)
(***************************************************************************)
EXTENDS Integers, Sequences, FiniteSets, Bags, TLC

(***************************************************************************)
(* Bounds of the model.                                                    *)
(***************************************************************************)
\* the number of targets in one graph description
MaxRules == 2
\* the number of library descriptors in a persisted index read by autodeps
MaxLibs == 2
\* the number of alias entries in a persisted index read by autodeps
MaxAliases == 2

(***************************************************************************)
(* Python values.                                                          *)
(***************************************************************************)
\* Python's None, where a string is expected
None == <<"<None>">>

Range(s) == {s[i] : i \in 1..Len(s)}

\* str.startswith
StartsWith(s, p) == Len(s) >= Len(p) /\ SubSeq(s, 1, Len(p)) = p

\* str.endswith
EndsWith(s, p) == Len(s) >= Len(p) /\ SubSeq(s, Len(s) - Len(p) + 1, Len(s)) = p

\* str.removeprefix
RemovePrefix(s, p) == IF StartsWith(s, p) THEN SubSeq(s, Len(p) + 1, Len(s)) ELSE s

\* str.removesuffix
RemoveSuffix(s, p) == IF EndsWith(s, p) THEN SubSeq(s, 1, Len(s) - Len(p)) ELSE s

\* str.replace: every non-overlapping occurrence, leftmost first
RECURSIVE Replace(_, _, _)
Replace(s, old, new) ==
    IF s = <<>> THEN <<>>
    ELSE IF StartsWith(s, old)
         THEN new \o Replace(SubSeq(s, Len(old) + 1, Len(s)), old, new)
         ELSE <<Head(s)>> \o Replace(Tail(s), old, new)

\* os.path.isabs
IsAbs(p) == StartsWith(p, <<"/">>)

\* os.path.join(a, b): an absolute b discards a
PathJoin(a, b) ==
    IF IsAbs(b) THEN b
    ELSE IF a = <<>> \/ EndsWith(a, <<"/">>) THEN a \o b
    ELSE a \o <<"/">> \o b

\* the file system reads a run of slashes as one
RECURSIVE NormPath(_)
NormPath(p) ==
    IF Len(p) < 2 THEN p
    ELSE IF p[1] = "/" /\ p[2] = "/" THEN NormPath(Tail(p))
    ELSE <<Head(p)>> \o NormPath(Tail(p))

(***************************************************************************)
(* The environment: the three roots, the files on disk and what the        *)
(* archives hold.                                                          *)
(***************************************************************************)
\* BazelWrapper.workspace
Workspace == <<"/", "ws">>
\* `bazel info output_base`
OutputBase == <<"/", "ob">>
\* `bazel info bazel-bin`
BazelBin == <<"/", "bb">>

\* symbolic archive references, as they appear in ruleOutput and jars
LibJar == <<"/", "/", "p", ":", "a", ".jar">>
SrcJar == <<"/", "/", "p", ":", "a", "-src", ".jar">>
DeployJar == <<"/", "/", "p", ":", "a", "_deploy", ".jar">>
RootJar == <<"/", "/", ":", "a", ".jar">>
ExtRootJar == <<"@", "r", "/", "/", ":", "a", ".jar">>
ExtPkgJar == <<"@", "r", "/", "/", "p", ":", "b", ".jar">>
GenJar == <<"bazel-out", "/", "p", "/", "b", ".jar">>
PlainJar == <<"p", "/", "a", ".jar">>
NotesTxt == <<"p", "/", "notes", ".txt">>

VARIABLES
    fs,          \* the paths that exist on disk
    corrupt,     \* the existing paths that are not readable archives
    pc,          \* where the run is
    graph,       \* the targets of the graph description read so far
    alias_map,   \* DepsParser.alias_map, in insertion order
    jvm_libs,    \* DepsParser.jvm_libs, in insertion order
    skipped_rule_classes, \* DepsParser.skipped_rule_classes
    scanned,     \* how many descriptors _scan_classes has been through
    calls,       \* the bazel invocations made so far
    db,          \* the persisted index file
    jar,         \* the reference handed to _guess_jar_full_path
    gp,          \* what _guess_jar_full_path returned
    rule_to_alias, \* AutoDeps.rule_to_alias, in insertion order
    class_to_rule, \* AutoDeps.class_to_rule, in insertion order
    target,      \* the command line argument of autodeps
    imports,     \* the classes the sources of the target import, as yielded
    out          \* what each run of resolve has printed

\* the state of the index builder, of path resolution and of the resolver
builder == <<graph, alias_map, jvm_libs, skipped_rule_classes, scanned, calls>>

guesser == <<jar, gp>>

resolver == <<rule_to_alias, class_to_rule, target, imports, out>>

vars == <<fs, corrupt, pc, db, builder, guesser, resolver>>

\* os.path.exists
Exists(p) == NormPath(p) \in fs

(***************************************************************************)
(* DepsParser: path resolution.                                            *)
(***************************************************************************)
\* the roots in the order the code probes them
Roots == <<Workspace, OutputBase, BazelBin>>

RECURSIVE ProbeRoots(_, _)
ProbeRoots(prefixes, relative_path) ==
    IF prefixes = <<>> THEN None
    ELSE LET p == PathJoin(Head(prefixes), relative_path)
         IN IF Exists(p) THEN p ELSE ProbeRoots(Tail(prefixes), relative_path)

_get_full_path_under_output(relative_path) == ProbeRoots(Roots, relative_path)

\* the relative path each form of reference is transformed to
LocalRelativePath(j) == Replace(RemovePrefix(j, <<"/", "/">>), <<":">>, <<"/">>)

ExternalRelativePath(j) ==
    PathJoin(<<"external">>,
             Replace(Replace(Replace(RemovePrefix(j, <<"@">>),
                                     <<"/", "/", ":">>, <<"/">>),
                             <<"/", "/">>, <<"/">>),
                     <<":">>, <<"/">>))

\* the transformed path of a reference, None for a form the code does not know
TransformedPath(j) ==
    IF StartsWith(j, <<"/", "/">>) THEN LocalRelativePath(j)
    ELSE IF StartsWith(j, <<"@">>) THEN ExternalRelativePath(j)
    ELSE IF StartsWith(j, <<"bazel-out">>) THEN j
    ELSE None

_guess_jar_full_path(j) ==
    IF TransformedPath(j) = None THEN None
    ELSE _get_full_path_under_output(TransformedPath(j))

(***************************************************************************)
(* Python dicts keep insertion order: a dict is a sequence of <<key,       *)
(* value>> pairs with distinct keys.                                       *)
(***************************************************************************)
DictKeys(d) == {d[i][1] : i \in 1..Len(d)}

DictIndex(d, k) == CHOOSE i \in 1..Len(d) : d[i][1] = k

DictGet(d, k) == d[DictIndex(d, k)][2]

\* d[k] = v: a new key goes last, a known key keeps its place
DictPut(d, k, v) ==
    IF k \in DictKeys(d) THEN [d EXCEPT ![DictIndex(d, k)] = <<k, v>>]
    ELSE Append(d, <<k, v>>)

SetAdd_KeepsCopies(B, x) == B (+) SetToBag({x})

\* set.add, the set kept as a bag so that a second copy would show
SetAdd(B, x) == IF BagIn(x, B) THEN B ELSE B (+) SetToBag({x})

(***************************************************************************)
(* The files the model's disk may hold and what the archives list.         *)
(***************************************************************************)
WsA == <<"/", "ws", "/", "p", "/", "a", ".jar">>
ObA == <<"/", "ob", "/", "p", "/", "a", ".jar">>
BbA == <<"/", "bb", "/", "p", "/", "a", ".jar">>
BbDeploy == <<"/", "bb", "/", "p", "/", "a", "_deploy", ".jar">>
WsRootA == <<"/", "ws", "/", "a", ".jar">>
FsRootA == <<"/", "a", ".jar">>
ObExtA == <<"/", "ob", "/", "external", "/", "r", "/", "a", ".jar">>
ObExtB == <<"/", "ob", "/", "external", "/", "r", "/", "p", "/", "b", ".jar">>
WsGenB == <<"/", "ws", "/", "bazel-out", "/", "p", "/", "b", ".jar">>
BbGenB == <<"/", "bb", "/", "bazel-out", "/", "p", "/", "b", ".jar">>

\* archive entry names
EntryA == <<"x", "/", "A", ".class">>
EntryB == <<"x", "/", "B", ".class">>
EntryC == <<"x", "/", "C", ".class">>
EntryManifest == <<"META-INF", "/", "MANIFEST", ".MF">>

\* class names
ClassA == <<"x", ".", "A">>
ClassB == <<"x", ".", "B">>
ClassC == <<"x", ".", "C">>

\* zp.namelist() of the archive at path p: what it lists goes by its name
namelist(p) ==
    IF "external" \in Range(p) THEN <<EntryC, EntryManifest, EntryC>>
    ELSE IF EndsWith(p, <<"b", ".jar">>) THEN <<EntryA, EntryC>>
    ELSE <<EntryManifest, EntryA, EntryB>>

\* zipfile.ZipFile(p) opens: p is a path, exists and is a readable archive
CanOpen(p) == p # None /\ Exists(p) /\ NormPath(p) \notin corrupt

RECURSIVE ClassNamesOf(_)
ClassNamesOf(names) ==
    IF names = <<>> THEN <<>>
    ELSE IF EndsWith(Head(names), <<".class">>)
         THEN <<RemoveSuffix(Replace(Head(names), <<"/">>, <<".">>), <<".class">>)>>
              \o ClassNamesOf(Tail(names))
         ELSE ClassNamesOf(Tail(names))

get_class_names_from_jar(jar_file) == ClassNamesOf(namelist(jar_file))

(***************************************************************************)
(* The graph description: targets, and what the output query answers.      *)
(***************************************************************************)
\* the rule named in RULE_SKIP_LIST
SkipListed == "@debezium_1_7//:compile_time_only_dependencies"

RULE_SKIP_LIST == {SkipListed}

\* rule names, in ascending order as Python compares strings
NameOrder == <<"//a:a", "//a:z", "//b:b", "//c:c", "//z:z", SkipListed>>

\* the rule names of the graphs of the model
Names == {"//a:a", "//b:b", SkipListed}

RuleClasses == {"alias", "generic_scala_worker", "java_library", "java_import",
                "scala_proto_library", "jarjar_links"}

UnknownRuleClasses == {"filegroup", "genrule"}

Target(type, name, ruleClass, actual, jars, ruleOutput) ==
    [type |-> type, name |-> name, ruleClass |-> ruleClass, actual |-> actual,
     jars |-> jars, ruleOutput |-> ruleOutput]

\* what `bazel cquery --output=starlark` may print for a rule: paths from the
\* execution root, one per line
OutputChoices == {<<>>, <<NotesTxt, PlainJar, GenJar>>}

JvmLib(name, jars) == [name |-> name, jars |-> jars, classes |-> <<>>]

\* the names already taken by the targets read so far
Taken == {graph[i].name : i \in 1..Len(graph)}

CanRead(name) == pc = "parse" /\ Len(graph) < MaxRules /\ name \notin Taken

\* the branch of parse's if/elif chain a rule class takes
Branch(ruleClass) ==
    IF ruleClass = "alias" THEN "alias"
    ELSE IF ruleClass = "generic_scala_worker" THEN "scala_worker"
    ELSE IF ruleClass = "java_library" THEN "java_library"
    ELSE IF ruleClass = "java_import" THEN "java_import"
    ELSE IF ruleClass \in {"scala_proto_library", "jarjar_links"} THEN "jar_generators"
    ELSE "skip"

(***************************************************************************)
(* DepsParser.parse: one action per branch of the loop over the targets.   *)
(* An exception nothing catches ends the run: pc becomes "parse_failed"    *)
(* or, in _scan_classes, "scan_failed".                                    *)
(***************************************************************************)
\* a target that is not a rule is passed over
ParseNonRule(name) ==
    /\ CanRead(name)
    /\ graph' = Append(graph, Target("SOURCE_FILE", name, "", "", <<>>, <<>>))
    /\ UNCHANGED <<fs, corrupt, pc, alias_map, jvm_libs,
                   skipped_rule_classes, scanned, calls, db,
                   guesser, resolver>>

ParseAlias(name, actual) ==
    /\ CanRead(name)
    /\ Branch("alias") = "alias"
    /\ graph' = Append(graph, Target("RULE", name, "alias", actual, <<>>, <<>>))
    /\ alias_map' = DictPut(alias_map, name, actual)
    /\ UNCHANGED <<fs, corrupt, pc, jvm_libs, skipped_rule_classes,
                   scanned, calls, db, guesser, resolver>>

\* the first output with the deploy suffix (emit_ijar is forced to False)
RECURSIVE FirstDeployJar(_)
FirstDeployJar(output) ==
    IF output = <<>> THEN None
    ELSE IF EndsWith(Head(output), <<"_deploy", ".jar">>) THEN Head(output)
    ELSE FirstDeployJar(Tail(output))

\* the first output that is an archive and not the sources archive
RECURSIVE FirstLibraryJar(_)
FirstLibraryJar(output) ==
    IF output = <<>> THEN None
    ELSE IF EndsWith(Head(output), <<".jar">>)
            /\ ~EndsWith(Head(output), <<"-src", ".jar">>) THEN Head(output)
    ELSE FirstLibraryJar(Tail(output))

\* the tail shared by _parse_scala_worker and _parse_java_library: the chosen
\* output is guessed (None has no startswith: AttributeError) and the
\* descriptor stored with the one result, None included
StoreSingleJar(name, j) ==
    IF j = None
    THEN /\ pc' = "parse_failed"
         /\ UNCHANGED jvm_libs
    ELSE /\ jvm_libs' = DictPut(jvm_libs, name,
                                JvmLib(name, <<_guess_jar_full_path(j)>>))
         /\ UNCHANGED pc

ParseScalaWorker(name, ruleOutput) ==
    /\ CanRead(name)
    /\ Branch("generic_scala_worker") = "scala_worker"
    /\ graph' = Append(graph, Target("RULE", name, "generic_scala_worker", "",
                                     <<>>, ruleOutput))
    /\ StoreSingleJar(name, FirstDeployJar(ruleOutput))
    /\ UNCHANGED <<fs, corrupt, alias_map, skipped_rule_classes,
                   scanned, calls, db, guesser, resolver>>

ParseJavaLibrary(name, ruleOutput) ==
    /\ CanRead(name)
    /\ Branch("java_library") = "java_library"
    /\ graph' = Append(graph, Target("RULE", name, "java_library", "", <<>>,
                                     ruleOutput))
    /\ StoreSingleJar(name, FirstLibraryJar(ruleOutput))
    /\ UNCHANGED <<fs, corrupt, alias_map, skipped_rule_classes,
                   scanned, calls, db, guesser, resolver>>

\* cquery_output.strip().split("\n"): no output is one empty line
Lines(files) == IF files = <<>> THEN << <<>> >> ELSE files

IsJarPath(x) == EndsWith(x, <<".jar">>)

\* BazelWrapper.get_outputs(target, suffix=".jar") on the answer `files`
get_outputs(files) == SelectSeq(Lines(files), IsJarPath)

GetOutputsCall(name, files) ==
    [op |-> "get_outputs", target |-> name, result |-> get_outputs(files)]

ParseJarGenerators(name, ruleClass, files) ==
    /\ CanRead(name)
    /\ Branch(ruleClass) = "jar_generators"
    /\ graph' = Append(graph, Target("RULE", name, ruleClass, "", <<>>, <<>>))
    /\ calls' = Append(calls, GetOutputsCall(name, files))
    /\ jvm_libs' = DictPut(jvm_libs, name, JvmLib(name, get_outputs(files)))
    /\ UNCHANGED <<fs, corrupt, pc, alias_map, skipped_rule_classes,
                   scanned, db, guesser, resolver>>

\* the declared references that the direct guess resolves, in declared order
RECURSIVE ResolvedJars(_)
ResolvedJars(jars) ==
    IF jars = <<>> THEN <<>>
    ELSE IF _guess_jar_full_path(Head(jars)) # None
         THEN <<_guess_jar_full_path(Head(jars))>> \o ResolvedJars(Tail(jars))
         ELSE ResolvedJars(Tail(jars))

NeedsOutputQuery_OnlyWhenEmpty(jars, resolved_jars) == Len(jars) = 0

\* whether _parse_java_import falls back to the output query
NeedsOutputQuery(jars, resolved_jars) ==
    Len(resolved_jars) # Len(jars) \/ Len(jars) = 0

ParseJavaImport(name, jars, files) ==
    /\ CanRead(name)
    /\ Branch("java_import") = "java_import"
    /\ graph' = Append(graph, Target("RULE", name, "java_import", "", jars, <<>>))
    /\ IF NeedsOutputQuery(jars, ResolvedJars(jars))
       THEN /\ calls' = Append(calls, GetOutputsCall(name, files))
            /\ jvm_libs' = DictPut(jvm_libs, name, JvmLib(name, get_outputs(files)))
       ELSE /\ jvm_libs' = DictPut(jvm_libs, name, JvmLib(name, ResolvedJars(jars)))
            /\ UNCHANGED calls
    /\ UNCHANGED <<fs, corrupt, pc, alias_map, skipped_rule_classes,
                   scanned, db, guesser, resolver>>

ParseSkipped(name, ruleClass) ==
    /\ CanRead(name)
    /\ Branch(ruleClass) = "skip"
    /\ graph' = Append(graph, Target("RULE", name, ruleClass, "", <<>>, <<>>))
    /\ skipped_rule_classes' = SetAdd(skipped_rule_classes, ruleClass)
    /\ UNCHANGED <<fs, corrupt, pc, alias_map, jvm_libs, scanned, calls,
                   db, guesser, resolver>>

(***************************************************************************)
(* DepsParser._scan_classes, which parse calls when the loop over the      *)
(* targets has ended.                                                      *)
(***************************************************************************)
\* JvmLib.add_class
add_class(classes, c) == Append(classes, c)

RECURSIVE AddClasses(_, _)
AddClasses(classes, cs) ==
    IF cs = <<>> THEN classes
    ELSE AddClasses(add_class(classes, Head(cs)), Tail(cs))

\* the file _record_classes_from_rule opens for a reference that is a string
JarFile(j) == IF IsAbs(j) THEN j ELSE _get_full_path_under_output(j)

\* _record_classes_from_rule raises: os.path.isabs(None) is a TypeError, and
\* zipfile.ZipFile raises on None, on a missing file and on a bad archive
RecordRaises(j) == j = None \/ ~CanOpen(JarFile(j))

\* the loop over rule.jars: the classes so far, and whether a jar raised
RECURSIVE RecordJars(_, _)
RecordJars(classes, jars) ==
    IF jars = <<>> THEN [raised |-> FALSE, classes |-> classes]
    ELSE IF RecordRaises(Head(jars)) THEN [raised |-> TRUE, classes |-> classes]
    ELSE RecordJars(AddClasses(classes, get_class_names_from_jar(JarFile(Head(jars)))),
                    Tail(jars))

\* one turn of the loop over jvm_libs.values(): a rule of the skip list is
\* passed over, any other rule takes the classes of its jars
ScanRule(rule) ==
    IF rule.name \in RULE_SKIP_LIST THEN [raised |-> FALSE, classes |-> rule.classes]
    ELSE RecordJars(rule.classes, rule.jars)

\* the loop over jvm_libs.values() from descriptor i on: the descriptors as
\* the loop leaves them, how many it went through, and whether a jar raised
RECURSIVE ScanRules(_, _)
ScanRules(libs, i) ==
    IF i > Len(libs) THEN [raised |-> FALSE, libs |-> libs, scanned |-> Len(libs)]
    ELSE LET r == ScanRule(libs[i][2])
             after == [libs EXCEPT ![i] =
                          <<libs[i][1], [libs[i][2] EXCEPT !.classes = r.classes]>>]
         IN IF r.raised THEN [raised |-> TRUE, libs |-> after, scanned |-> i - 1]
            ELSE ScanRules(after, i + 1)

ScanClasses ==
    /\ pc = "parse"
    /\ LET r == ScanRules(jvm_libs, 1)
       IN /\ jvm_libs' = r.libs
          /\ scanned' = r.scanned
          /\ pc' = IF r.raised THEN "scan_failed" ELSE "scanned"
    /\ UNCHANGED <<fs, corrupt, graph, alias_map, skipped_rule_classes,
                   calls, db, guesser, resolver>>

(***************************************************************************)
(* Indexer.refresh after parse: the index is serialised and written.        *)
(***************************************************************************)
\* json.dumps of a JvmLib: a named tuple is written as a list of its fields
JvmLibToJson(rule) == <<rule.name, rule.jars, None, None, rule.classes>>

\* DepsParser.to_json
to_json(aliases, libs) ==
    [alias |-> aliases,
     jvm_libs |-> [i \in 1..Len(libs) |-> <<libs[i][1], JvmLibToJson(libs[i][2])>>]]

\* no file has been written
NoDb == [alias |-> <<>>, jvm_libs |-> <<>>]

WriteIndex ==
    /\ pc = "scanned"
    /\ db' = to_json(alias_map, jvm_libs)
    /\ pc' = "done"
    /\ UNCHANGED <<fs, corrupt, graph, alias_map, jvm_libs,
                   skipped_rule_classes, scanned, calls, guesser,
                   resolver>>

(***************************************************************************)
(* The index builder.                                                      *)
(***************************************************************************)
AllFiles == {WsA, ObA, BbDeploy, ObExtA, ObExtB, WsGenB}

\* the disks of the model: everything built, the library archive not built,
\* the generated archive not built, the generated archive unreadable
Disks ==
    {[files |-> AllFiles, unreadable |-> {}],
     [files |-> AllFiles \ {WsA, ObA}, unreadable |-> {}],
     [files |-> AllFiles \ {WsGenB}, unreadable |-> {}],
     [files |-> AllFiles, unreadable |-> {WsGenB}]}

Init ==
    /\ \E d \in Disks : fs = d.files /\ corrupt = d.unreadable
    /\ pc = "parse"
    /\ graph = <<>>
    /\ alias_map = <<>>
    /\ jvm_libs = <<>>
    /\ skipped_rule_classes = EmptyBag
    /\ scanned = 0
    /\ calls = <<>>
    /\ db = NoDb
    /\ jar = None
    /\ gp = None
    /\ rule_to_alias = <<>>
    /\ class_to_rule = <<>>
    /\ target = ClassA
    /\ imports = <<>>
    /\ out = <<>>

ScalaOutputChoices == {<<LibJar, DeployJar>>, <<LibJar>>}

LibraryOutputChoices == {<<SrcJar, LibJar>>, <<SrcJar>>}

ImportJarChoices == {<<>>, <<LibJar, GenJar>>, <<ExtRootJar, ExtPkgJar>>}

Next ==
    \/ \E name \in Names : ParseNonRule(name)
    \/ \E name \in Names : \E actual \in Names \ {name} : ParseAlias(name, actual)
    \/ \E name \in Names, o \in ScalaOutputChoices : ParseScalaWorker(name, o)
    \/ \E name \in Names, o \in LibraryOutputChoices : ParseJavaLibrary(name, o)
    \/ \E name \in Names, c \in RuleClasses \cup UnknownRuleClasses,
          files \in OutputChoices : ParseJarGenerators(name, c, files)
    \/ \E name \in Names, jars \in ImportJarChoices, files \in OutputChoices :
          ParseJavaImport(name, jars, files)
    \/ \E name \in Names, c \in RuleClasses \cup UnknownRuleClasses :
          ParseSkipped(name, c)
    \/ ScanClasses
    \/ WriteIndex

Spec == Init /\ [][Next]_vars

(***************************************************************************)
(* Path resolution on its own: a reference and a disk are drawn, and       *)
(* _guess_jar_full_path is applied to them.                                *)
(***************************************************************************)
GuessRefs == {LibJar, DeployJar, RootJar, ExtRootJar, ExtPkgJar, GenJar}

GuessFiles == {WsA, ObA, BbA, WsRootA, FsRootA, ObExtA, ObExtB, BbGenB}

InitGuess ==
    /\ fs \in SUBSET GuessFiles
    /\ corrupt = {}
    /\ pc = "guess"
    /\ graph = <<>>
    /\ alias_map = <<>>
    /\ jvm_libs = <<>>
    /\ skipped_rule_classes = EmptyBag
    /\ scanned = 0
    /\ calls = <<>>
    /\ db = NoDb
    /\ jar \in GuessRefs
    /\ gp = None
    /\ rule_to_alias = <<>>
    /\ class_to_rule = <<>>
    /\ target = ClassA
    /\ imports = <<>>
    /\ out = <<>>

Guess ==
    /\ pc = "guess"
    /\ gp' = _guess_jar_full_path(jar)
    /\ pc' = "guessed"
    /\ UNCHANGED <<fs, corrupt, db, builder, jar, resolver>>

NextGuess == Guess

SpecGuess == InitGuess /\ [][NextGuess]_vars

(***************************************************************************)
(* AutoDeps.__init__: the persisted index is read and the two reverse      *)
(* mappings are built.                                                     *)
(***************************************************************************)
\* rule_to_alias[r] = a for every alias a of r, in the order of the file
RECURSIVE ReverseAliases(_, _)
ReverseAliases(r2a, aliases) ==
    IF aliases = <<>> THEN r2a
    ELSE ReverseAliases(DictPut(r2a, Head(aliases)[2], Head(aliases)[1]),
                        Tail(aliases))

RecordProvider_Prepends(c2r, c, name) ==
    IF c \in DictKeys(c2r) THEN DictPut(c2r, c, <<name>> \o DictGet(c2r, c))
    ELSE DictPut(c2r, c, <<name>>)

\* one class of one rule: the rule joins the providers of the class
RecordProvider(c2r, c, name) ==
    IF c \in DictKeys(c2r) THEN DictPut(c2r, c, Append(DictGet(c2r, c), name))
    ELSE DictPut(c2r, c, <<name>>)

RECURSIVE RecordProviders(_, _, _)
RecordProviders(c2r, classes, name) ==
    IF classes = <<>> THEN c2r
    ELSE RecordProviders(RecordProvider(c2r, Head(classes), name), Tail(classes), name)

\* the loop over db["jvm_libs"].values(): rule[0] is the name, rule[4] the classes
RECURSIVE IndexRules(_, _)
IndexRules(c2r, rules) ==
    IF rules = <<>> THEN c2r
    ELSE IndexRules(RecordProviders(c2r, Head(rules)[2][5], Head(rules)[2][1]),
                    Tail(rules))

Load ==
    /\ pc = "done"
    /\ rule_to_alias' = ReverseAliases(<<>>, db.alias)
    /\ class_to_rule' = IndexRules(<<>>, db.jvm_libs)
    /\ pc' = "loaded"
    /\ UNCHANGED <<fs, corrupt, db, builder, guesser, target, imports, out>>

(***************************************************************************)
(* AutoDeps.resolve.                                                       *)
(***************************************************************************)
_find_bazel_rule_for_class_FirstOnly(c) ==
    IF c \in DictKeys(class_to_rule) THEN <<Head(DictGet(class_to_rule, c))>>
    ELSE <<>>

_find_bazel_rule_for_class(c) ==
    IF c \in DictKeys(class_to_rule) THEN DictGet(class_to_rule, c) ELSE <<>>

\* the classes to satisfy: the target itself when it reads as a class name,
\* the classes its sources import otherwise
_maybe_get_classes(t) ==
    IF "." \in Range(t) /\ ":" \notin Range(t) THEN {t} ELSE Range(imports)

\* the orders in which a Python set may be iterated
Orders(S) ==
    {s \in [1..Cardinality(S) -> S] :
        \A i, k \in 1..Cardinality(S) : s[i] = s[k] => i = k}

\* the inner loop of resolve: class c goes to each of its providers
RECURSIVE AddProviders(_, _, _)
AddProviders(deps, ds, c) ==
    IF ds = <<>> THEN deps
    ELSE AddProviders(IF Head(ds) \in DictKeys(deps)
                      THEN DictPut(deps, Head(ds), Append(DictGet(deps, Head(ds)), c))
                      ELSE DictPut(deps, Head(ds), <<c>>),
                      Tail(ds), c)

\* the outer loop of resolve, over the classes in the order of iteration
RECURSIVE CollectDeps(_, _)
CollectDeps(deps, order) ==
    IF order = <<>> THEN deps
    ELSE CollectDeps(AddProviders(deps, _find_bazel_rule_for_class(Head(order)),
                                  Head(order)),
                     Tail(order))

\* the names of `names`, ascending, that are keys of deps
RECURSIVE KeysInOrder(_, _)
KeysInOrder(names, deps) ==
    IF names = <<>> THEN <<>>
    ELSE IF Head(names) \in DictKeys(deps)
         THEN <<Head(names)>> \o KeysInOrder(Tail(names), deps)
         ELSE KeysInOrder(Tail(names), deps)

\* sorted(deps.items()): the keys are distinct, so the key alone orders
\* the items
SortedItems(deps) ==
    LET ks == KeysInOrder(NameOrder, deps)
    IN [i \in 1..Len(ks) |-> <<ks[i], DictGet(deps, ks[i])>>]

Displayed_RealName(d) == d

\* the name a provider is printed under
Displayed(d) ==
    IF d \in DictKeys(rule_to_alias) THEN DictGet(rule_to_alias, d) ELSE d

\* the two lines printed for one provider: the comment naming the classes
\* and the dependency; `rule` is the provider the lines were printed for
PrintedFor(item) ==
    [rule |-> item[1], classes |-> item[2], dep |-> Displayed(item[1])]

Resolve(order) ==
    /\ pc = "loaded"
    /\ Len(out) < 2
    /\ LET items == SortedItems(CollectDeps(<<>>, order))
       IN out' = Append(out, [i \in 1..Len(items) |-> PrintedFor(items[i])])
    /\ UNCHANGED <<fs, corrupt, pc, db, builder, guesser, rule_to_alias,
                   class_to_rule, target, imports>>

(***************************************************************************)
(* The resolver on its own: a persisted index, a target and the imports of *)
(* its sources are drawn; the index is loaded and resolve is run twice.    *)
(***************************************************************************)
LibNames == {"//a:a", "//b:b", "//c:c"}

AliasNames == {"//a:z", "//z:z"}

ClassLists == {<<>>, <<ClassA>>, <<ClassA, ClassB>>, <<ClassB, ClassA, ClassA>>}

DistinctKeys(s) == \A i, k \in 1..Len(s) : s[i][1] = s[k][1] => i = k

\* the library mappings a persisted index may hold
DbLibs ==
    {[i \in 1..Len(s) |-> <<s[i][1], <<s[i][1], <<>>, None, None, s[i][2]>>>>] :
        s \in {t \in UNION {[1..n -> LibNames \X ClassLists] : n \in 0..MaxLibs} :
                  DistinctKeys(t)}}

\* the alias mappings a persisted index may hold: an alias names a library
DbAliases ==
    {t \in UNION {[1..n -> AliasNames \X {"//a:a", "//b:b"}] : n \in 0..MaxAliases} :
        DistinctKeys(t)}

\* a target that is a rule
RuleTarget == <<"/", "/", "t", ":", "t">>

ImportChoices == {<<ClassA>>, <<ClassA, ClassB>>, <<ClassB, ClassC>>}

InitDeps ==
    /\ fs = {}
    /\ corrupt = {}
    /\ pc = "done"
    /\ graph = <<>>
    /\ alias_map = <<>>
    /\ jvm_libs = <<>>
    /\ skipped_rule_classes = EmptyBag
    /\ scanned = 0
    /\ calls = <<>>
    /\ db \in [alias : DbAliases, jvm_libs : DbLibs]
    /\ jar = None
    /\ gp = None
    /\ rule_to_alias = <<>>
    /\ class_to_rule = <<>>
    /\ target \in {ClassA, ClassC, RuleTarget}
    /\ imports \in IF target = RuleTarget THEN ImportChoices ELSE {<<>>}
    /\ out = <<>>

NextDeps ==
    \/ Load
    \/ \E order \in Orders(_maybe_get_classes(target)) : Resolve(order)

SpecDeps == InitDeps /\ [][NextDeps]_vars

(***************************************************************************)
(* The index builder followed by the resolver's start: the graph is        *)
(* parsed, the index written, and AutoDeps.__init__ reads it back.         *)
(***************************************************************************)
InitPipeline == Init

NextPipeline ==
    \/ Next
    \/ Load

SpecPipeline == InitPipeline /\ [][NextPipeline]_vars

(***************************************************************************)
(* Properties of the index builder.                                        *)
(***************************************************************************)
\* the rule has a descriptor in jvm_libs
HasDescriptor(name) == name \in DictKeys(jvm_libs)

\* C1: a reference that cannot be resolved, or an archive that cannot be
\* read, does not stop the index build: the failure stays with its library
\* and _scan_classes goes on to the other libraries.
C1_FailureConfinedToLibrary == pc # "scan_failed"

\* C2: when every direct guess for a library's reference has failed, a build
\* of the owning rule has been triggered (so that the guesses can be retried
\* and, failing that, the output-location query consulted).
C2_BuildTriggeredWhenGuessesFail ==
    \A i \in 1..Len(jvm_libs) :
        None \in Range(jvm_libs[i][2].jars)
        => \E k \in 1..Len(calls) :
               calls[k].op = "build" /\ calls[k].target = jvm_libs[i][1]

\* the roots under which the transformed path of a reference exists
RootsHolding(relative_path) ==
    {i \in 1..Len(Roots) : NormPath(Roots[i] \o <<"/">> \o relative_path) \in fs}

Min(S) == CHOOSE x \in S : \A y \in S : x <= y

\* C3: a reference of one of the three known forms whose transformed path
\* exists under some root resolves to an existing path under the first such
\* root (workspace, output base, binary output root); it resolves to no path
\* when the transformed path exists under no root.
C3_FirstRootHoldingThePath ==
    pc = "guessed" =>
        LET rel == TransformedPath(jar)
            holding == RootsHolding(rel)
        IN IF holding = {} THEN gp = None
           ELSE /\ gp # None
                /\ Exists(gp)
                /\ StartsWith(NormPath(gp), Roots[Min(holding)] \o <<"/">>)

\* C8: a rule of a kind parse does not know leaves no descriptor and no
\* alias, and its kind is in the skip report exactly once; a kind parse
\* knows is never in the skip report.
C8_UnknownKindSkippedOnce ==
    /\ \A i \in 1..Len(graph) :
           (graph[i].type = "RULE" /\ graph[i].ruleClass \notin RuleClasses)
           => /\ ~HasDescriptor(graph[i].name)
              /\ graph[i].name \notin DictKeys(alias_map)
              /\ CopiesIn(graph[i].ruleClass, skipped_rule_classes) = 1
    /\ \A c \in RuleClasses : ~BagIn(c, skipped_rule_classes)

\* a graph with two rules of one unknown kind has been parsed
C8_Witness ==
    /\ pc = "done"
    /\ Len(graph) = 2
    /\ graph[1].ruleClass = "filegroup"
    /\ graph[2].ruleClass = "filegroup"
    /\ BagToSet(skipped_rule_classes) = {"filegroup"}

NoDuplicates(s) == \A i, k \in 1..Len(s) : s[i] = s[k] => i = k

\* C9: in a written index no descriptor lists a class twice.
C9_NoDuplicateClasses ==
    pc = "done" =>
        \A i \in 1..Len(db.jvm_libs) : NoDuplicates(db.jvm_libs[i][2][5])

\* the answer the output query gave for a rule, if it was asked
QueriedOutputs(name) ==
    {calls[k].result : k \in {n \in 1..Len(calls) :
                                 calls[n].op = "get_outputs" /\ calls[n].target = name}}

\* C10: an import rule whose declared references all resolve by direct
\* guessing, and there is at least one, keeps exactly those paths in declared
\* order; otherwise its archives are exactly the archive paths the output
\* query returned for the rule.
C10_ImportAllOrNothing ==
    \A i \in 1..Len(graph) :
        (graph[i].type = "RULE" /\ graph[i].ruleClass = "java_import")
        => LET declared == graph[i].jars
               name == graph[i].name
           IN /\ HasDescriptor(name)
              /\ IF /\ declared # <<>>
                    /\ \A k \in 1..Len(declared) : _guess_jar_full_path(declared[k]) # None
                 THEN DictGet(jvm_libs, name).jars =
                          [k \in 1..Len(declared) |-> _guess_jar_full_path(declared[k])]
                 ELSE QueriedOutputs(name) = {DictGet(jvm_libs, name).jars}

\* an import rule with two declared references, one of which resolves, has
\* taken its archives from the output query
C10_Witness ==
    \E i \in 1..Len(graph) :
        /\ graph[i].ruleClass = "java_import"
        /\ Len(graph[i].jars) = 2
        /\ _guess_jar_full_path(graph[i].jars[1]) # None
        /\ _guess_jar_full_path(graph[i].jars[2]) = None
        /\ HasDescriptor(graph[i].name)
        /\ DictGet(jvm_libs, graph[i].name).jars = <<PlainJar, GenJar>>

(***************************************************************************)
(* Properties of the resolver.                                             *)
(***************************************************************************)
\* the libraries of the loaded index that hold class c
LibsHolding(c) ==
    {db.jvm_libs[i][1] : i \in {n \in 1..Len(db.jvm_libs) :
                                   c \in Range(db.jvm_libs[n][2][5])}}

\* the aliases of a rule in the loaded index
AliasesOf(d) == {db.alias[i][1] : i \in {n \in 1..Len(db.alias) : db.alias[n][2] = d}}

C5_AliasShownForProvider ==
    \A r \in 1..Len(out) :
        \A i \in 1..Len(out[r]) :
            IF AliasesOf(out[r][i].rule) # {}
            THEN /\ out[r][i].dep \in AliasesOf(out[r][i].rule)
                 /\ out[r][i].dep # out[r][i].rule
            ELSE out[r][i].dep = out[r][i].rule

\* a run has printed one provider under an alias and another under its name
C5_Witness ==
    \E r \in 1..Len(out) :
        \E i, k \in 1..Len(out[r]) :
            /\ out[r][i].dep \in AliasesOf(out[r][i].rule)
            /\ AliasesOf(out[r][k].rule) = {}
            /\ out[r][k].dep = out[r][k].rule

\* the place of a name in the ascending order of names
Rank(n) == CHOOSE i \in 1..Len(NameOrder) : NameOrder[i] = n

\* C6: the printed dependency lines ascend by the name they show.
C6_SortedByDisplayedName ==
    \A r \in 1..Len(out) :
        \A i \in 1..Len(out[r]) - 1 :
            Rank(out[r][i].dep) <= Rank(out[r][i + 1].dep)

\* what a run printed: per provider the comment and the dependency line
Printed(run) == [i \in 1..Len(run) |-> <<run[i].classes, run[i].dep>>]

\* C7: two runs of resolve for one target, one index and the same sources
\* print the same, whatever the order the classes are iterated in.
C7_RunsPrintTheSame ==
    Len(out) = 2 => Printed(out[1]) = Printed(out[2])

(***************************************************************************)
(* Properties of the index as built, written and read back.                *)
(***************************************************************************)
\* the place of a rule in the graph description
GraphPlace(name) == CHOOSE i \in 1..Len(graph) : graph[i].name = name

\* C11: once the written index is read back, the providers of a class are
\* the libraries that hold it, in the order of their rules in the graph
\* description: a library whose rule comes first is listed first.
C11_ProvidersInGraphOrder ==
    pc = "loaded" =>
        \A i \in 1..Len(class_to_rule) :
            LET c == class_to_rule[i][1]
                providers == class_to_rule[i][2]
            IN /\ Range(providers) = LibsHolding(c)
               /\ \A a, b \in 1..Len(providers) :
                      a < b => GraphPlace(providers[a]) <= GraphPlace(providers[b])

\* rule //b:b comes before rule //a:a in the graph, both hold ClassA, and
\* the index read back lists //b:b before //a:a among the providers of ClassA
C11_Witness ==
    /\ pc = "loaded"
    /\ Len(graph) = 2
    /\ graph[1].name = "//b:b"
    /\ graph[2].name = "//a:a"
    /\ ClassA \in DictKeys(class_to_rule)
    /\ LET providers == DictGet(class_to_rule, ClassA)
       IN /\ Len(providers) >= 2
          /\ providers[1] = "//b:b"
          /\ providers[Len(providers)] = "//a:a"

====
